---------------------------- MODULE Spec2Model ----------------------------
(***************************************************************************)
(* Model of the trade journal page (src/app/page.tsx): the React state of  *)
(* Home, its event handlers, its derived values (filteredTrades,           *)
(* sortedTrades, the statistics, visibleTrades) and the four asynchronous  *)
(* calls to the storage collaborator.                                      *)
(*                                                                         *)
(* Conventions.                                                            *)
(*  - A JS string that the code trims, lower-cases, searches or parses is  *)
(*    a sequence of one-character strings (<<"B","T","C">>). Other strings *)
(*    (ids, dates, messages) are TLA+ strings.                             *)
(*  - NULL stands for JS null in a `string | null` slot.                   *)
(*  - Numbers are integer-valued doubles; the decimal point and the        *)
(*    exponent are outside the modelled alphabet. A possibly-NaN number    *)
(*    (the result of parseFloat or of Date.getTime) is [nan, v].           *)
(*  - Date.getTime() is counted in days since the epoch.                   *)
(***************************************************************************)
EXTENDS Integers, Sequences, FiniteSets, TLC

(***************************************************************************)
(* Bounds of the model.                                                    *)
(***************************************************************************)
\* longest list the collaborator returns in the view specification
MaxViewRows == 3
\* longest list the collaborator returns in the statistics specification
MaxStatRows == 8
\* longest list the collaborator returns in the journal specification
MaxRows == 1
\* number of inserts the collaborator accepts in the journal specification
MaxInserts == 1
\* number of delete calls in flight at a time in the journal specification
MaxDeleteCalls == 1
\* longest list the collaborator returns in the deletion specification
MaxDeleteRows == 2
\* number of delete calls in flight at a time in the deletion specification
MaxPendingDeletes == 2
\* longest text of a numeric column in the normalization specification
MaxRawLen == 2

NULL == "null"

(***************************************************************************)
(* JS string primitives on character sequences.                            *)
(***************************************************************************)
IsSpace(c) == c \in {" ", "\t", "\n", "\r"}

LowerChar(c) ==
  CASE c = "A" -> "a" [] c = "B" -> "b" [] c = "C" -> "c" [] c = "D" -> "d"
    [] c = "E" -> "e" [] c = "F" -> "f" [] c = "G" -> "g" [] c = "H" -> "h"
    [] c = "I" -> "i" [] c = "J" -> "j" [] c = "K" -> "k" [] c = "L" -> "l"
    [] c = "M" -> "m" [] c = "N" -> "n" [] c = "O" -> "o" [] c = "P" -> "p"
    [] c = "Q" -> "q" [] c = "R" -> "r" [] c = "S" -> "s" [] c = "T" -> "t"
    [] c = "U" -> "u" [] c = "V" -> "v" [] c = "W" -> "w" [] c = "X" -> "x"
    [] c = "Y" -> "y" [] c = "Z" -> "z" [] OTHER -> c

\* String.prototype.toLowerCase
toLowerCase(s) == [i \in 1..Len(s) |-> LowerChar(s[i])]

RECURSIVE TrimStart(_)
TrimStart(s) ==
  IF s # <<>> /\ IsSpace(Head(s)) THEN TrimStart(Tail(s)) ELSE s

RECURSIVE TrimEnd(_)
TrimEnd(s) ==
  IF s # <<>> /\ IsSpace(s[Len(s)]) THEN TrimEnd(SubSeq(s, 1, Len(s) - 1)) ELSE s

\* String.prototype.trim
trim(s) == TrimEnd(TrimStart(s))

\* String.prototype.includes
includes(hay, needle) ==
  \E i \in 1..(Len(hay) + 1) :
     /\ i + Len(needle) - 1 <= Len(hay)
     /\ SubSeq(hay, i, i + Len(needle) - 1) = needle

\* JS truthiness of a string
Truthy(s) == s # <<>>

(***************************************************************************)
(* Numbers that may be NaN.                                                *)
(***************************************************************************)
NaN == [nan |-> TRUE, v |-> 0]
Num(n) == [nan |-> FALSE, v |-> n]

\* Number.isFinite on a parseFloat result (no Infinity in the alphabet)
isFinite(x) == ~x.nan
\* Number.isNaN
isNaN(x) == x.nan

IsDigit(c) == c \in {"0", "1", "2", "3", "4", "5", "6", "7", "8", "9"}

DigitVal(c) ==
  CASE c = "0" -> 0 [] c = "1" -> 1 [] c = "2" -> 2 [] c = "3" -> 3
    [] c = "4" -> 4 [] c = "5" -> 5 [] c = "6" -> 6 [] c = "7" -> 7
    [] c = "8" -> 8 [] c = "9" -> 9

\* the longest prefix of s made of decimal digits
RECURSIVE DigitPrefix(_)
DigitPrefix(s) ==
  IF s # <<>> /\ IsDigit(Head(s)) THEN <<Head(s)>> \o DigitPrefix(Tail(s)) ELSE <<>>

RECURSIVE DigitsValue(_)
DigitsValue(ds) ==
  IF ds = <<>> THEN 0
  ELSE 10 * DigitsValue(SubSeq(ds, 1, Len(ds) - 1)) + DigitVal(ds[Len(ds)])

\* parseFloat: leading white space skipped, an optional sign, then the longest
\* run of digits; whatever follows is ignored; NaN when there is no digit.
parseFloat(s) ==
  LET t == TrimStart(s)
      signed == t # <<>> /\ Head(t) \in {"-", "+"}
      body == IF signed THEN Tail(t) ELSE t
      ds == DigitPrefix(body)
  IN  IF ds = <<>> THEN NaN
      ELSE IF signed /\ Head(t) = "-" THEN Num(0 - DigitsValue(ds))
      ELSE Num(DigitsValue(ds))

DigitChar(d) ==
  CASE d = 0 -> "0" [] d = 1 -> "1" [] d = 2 -> "2" [] d = 3 -> "3"
    [] d = 4 -> "4" [] d = 5 -> "5" [] d = 6 -> "6" [] d = 7 -> "7"
    [] d = 8 -> "8" [] d = 9 -> "9"

RECURSIVE NatToString(_)
NatToString(n) ==
  IF n < 10 THEN <<DigitChar(n)>>
  ELSE NatToString(n \div 10) \o <<DigitChar(n % 10)>>

\* Number.prototype.toString of an integer-valued number
toString(n) == IF n < 0 THEN <<"-">> \o NatToString(0 - n) ELSE NatToString(n)

(***************************************************************************)
(* Dates. new Date(value).getTime(): the strings the date inputs and the   *)
(* trade_date column produce, and NaN for anything else.                   *)
(***************************************************************************)
getTime(value) ==
  CASE value = "2024-04-03" -> Num(19816)
    [] value = "2024-04-07" -> Num(19820)
    [] value = "2024-04-10" -> Num(19823)
    [] value = "2024-04-12" -> Num(19825)
    [] OTHER -> NaN

\* new Date().toISOString().slice(0, 10) at the time of the session
Today == "2024-04-12"


(***************************************************************************)
(* Raw rows and canonical trades.                                          *)
(***************************************************************************)
\* a value of type `string | number | null`
RawNumber(n) == [k |-> "number", n |-> n, s |-> <<>>]
RawString(s) == [k |-> "string", n |-> 0, s |-> s]
RawNull == [k |-> "null", n |-> 0, s |-> <<>>]

\* parseNumericField taking every text for unparseable
parseNumericFieldNumbersOnly(value) ==
  IF value.k = "number" THEN value.n ELSE 0

parseNumericField(value) ==
  IF value.k = "number" THEN value.n
  ELSE IF value.k = "string"
       THEN LET parsed == parseFloat(value.s)
            IN  IF isFinite(parsed) THEN parsed.v ELSE 0
       ELSE 0

\* a value of type `string | null` whose string is a character sequence
Text(s) == [isNull |-> FALSE, s |-> s]
TextNull == [isNull |-> TRUE, s |-> <<>>]

\* row.sentiment ?? ""
SentimentOrEmpty(value) == IF value.isNull THEN <<>> ELSE value.s

mapRowToTrade(row) ==
  [ id |-> row.id,
    pair |-> row.pair,
    direction |-> row.direction,
    strategy |-> row.strategy,
    entryPrice |-> parseNumericField(row.entry_price),
    exitPrice |-> parseNumericField(row.exit_price),
    pnl |-> parseNumericField(row.pnl),
    date |-> row.trade_date,
    sentiment |-> SentimentOrEmpty(row.sentiment),
    positionSize |-> parseNumericField(row.position_size) ]

createDefaultFilters ==
  [ pair |-> <<>>, direction |-> "All", strategy |-> <<>>,
    startDate |-> "", endDate |-> "" ]

SortKeys == {"date-desc", "date-asc", "pnl-desc", "pnl-asc", "size-desc", "size-asc"}

calculatePnL(direction, entry, exit, size) ==
  IF ~isFinite(entry) \/ ~isFinite(exit) \/ ~isFinite(size) THEN 0
  ELSE LET difference == IF direction = "Long" THEN exit.v - entry.v
                         ELSE entry.v - exit.v
       IN  difference * size.v

createEmptyFormState ==
  [ pair |-> <<>>, direction |-> "Long", strategy |-> <<>>,
    entryPrice |-> <<>>, exitPrice |-> <<>>, positionSize |-> <<>>,
    date |-> Today, sentiment |-> <<>> ]

(***************************************************************************)
(* Array.prototype.sort: stable, driven by the sign of the comparator; a   *)
(* NaN comparator result counts as 0.                                      *)
(***************************************************************************)
\* x < y on numbers: false as soon as one side is NaN
Less(x, y) == ~x.nan /\ ~y.nan /\ x.v < y.v

Minus(x, y) == IF x.nan \/ y.nan THEN NaN ELSE Num(x.v - y.v)

\* the comparator of sortTradesByDateDesc
CompareDateDesc(a, b) == Minus(getTime(b.date), getTime(a.date))

\* CompareBySortKey with the "date-asc" case copied from "date-desc"
CompareDateAscAsDesc(a, b, key) ==
  CASE key = "date-asc" -> Minus(getTime(b.date), getTime(a.date))
    [] key = "pnl-desc" -> Num(b.pnl - a.pnl)
    [] key = "pnl-asc" -> Num(a.pnl - b.pnl)
    [] key = "size-desc" -> Num(b.positionSize - a.positionSize)
    [] key = "size-asc" -> Num(a.positionSize - b.positionSize)
    [] OTHER -> Minus(getTime(b.date), getTime(a.date))

\* CompareBySortKey with the "pnl-asc" case copied from "pnl-desc"
ComparePnlAscAsDesc(a, b, key) ==
  CASE key = "date-asc" -> Minus(getTime(a.date), getTime(b.date))
    [] key = "pnl-desc" -> Num(b.pnl - a.pnl)
    [] key = "pnl-asc" -> Num(b.pnl - a.pnl)
    [] key = "size-desc" -> Num(b.positionSize - a.positionSize)
    [] key = "size-asc" -> Num(a.positionSize - b.positionSize)
    [] OTHER -> Minus(getTime(b.date), getTime(a.date))

\* the comparator of sortedTrades
CompareBySortKey(a, b, key) ==
  CASE key = "date-asc" -> Minus(getTime(a.date), getTime(b.date))
    [] key = "pnl-desc" -> Num(b.pnl - a.pnl)
    [] key = "pnl-asc" -> Num(a.pnl - b.pnl)
    [] key = "size-desc" -> Num(b.positionSize - a.positionSize)
    [] key = "size-asc" -> Num(a.positionSize - b.positionSize)
    [] OTHER -> Minus(getTime(b.date), getTime(a.date))

\* the sign a sort reads off a comparator result: NaN counts as 0
SortOrder(c) == IF c.nan THEN 0 ELSE c.v

\* sortTradesByDateDesc leaving the entries as they come
sortTradesByDateDescUnsorted(entries) == entries

\* Array.prototype.sort is stable and puts a before b when the comparator is
\* negative on (a, b): SortSeq is an insertion sort that moves an element only
\* past those it strictly precedes.
sortTradesByDateDesc(entries) ==
  SortSeq(entries, LAMBDA a, b : SortOrder(CompareDateDesc(a, b)) < 0)

(***************************************************************************)
(* The filter callback of filteredTrades.                                  *)
(***************************************************************************)
\* PairRejects comparing the pair as stored, its case kept
PairRejectsCaseSensitive(trade, f) ==
  Truthy(f.pair) /\ ~includes(trade.pair, toLowerCase(trim(f.pair)))

\* trade.pair fails the pair filter (the first `if` of the callback)
PairRejects(trade, f) ==
  Truthy(f.pair)
  /\ ~includes(toLowerCase(trade.pair), toLowerCase(trim(f.pair)))

\* trade.strategy fails the strategy filter
StrategyRejects(trade, f) ==
  Truthy(f.strategy)
  /\ ~includes(toLowerCase(trade.strategy), toLowerCase(trim(f.strategy)))

DirectionRejects(trade, f) ==
  f.direction # "All" /\ trade.direction # f.direction

\* StartRejects with an exclusive bound
StartRejectsExclusive(trade, f) ==
  f.startDate # ""
  /\ LET startTime == getTime(f.startDate)
     IN  ~isNaN(startTime) /\ ~Less(startTime, getTime(trade.date))

StartRejects(trade, f) ==
  f.startDate # ""
  /\ LET startTime == getTime(f.startDate)
     IN  ~isNaN(startTime) /\ Less(getTime(trade.date), startTime)

EndRejects(trade, f) ==
  f.endDate # ""
  /\ LET endTime == getTime(f.endDate)
     IN  ~isNaN(endTime) /\ Less(endTime, getTime(trade.date))

\* TradePasses letting a trade through as soon as one text filter matches
TradePassesAnyText(trade, f) ==
  IF Truthy(f.pair) /\ ~PairRejects(trade, f) THEN TRUE
  ELSE IF PairRejects(trade, f) THEN FALSE
  ELSE IF StrategyRejects(trade, f) THEN FALSE
  ELSE IF DirectionRejects(trade, f) THEN FALSE
  ELSE IF StartRejects(trade, f) THEN FALSE
  ELSE IF EndRejects(trade, f) THEN FALSE
  ELSE TRUE

TradePasses(trade, f) ==
  IF PairRejects(trade, f) THEN FALSE
  ELSE IF StrategyRejects(trade, f) THEN FALSE
  ELSE IF DirectionRejects(trade, f) THEN FALSE
  ELSE IF StartRejects(trade, f) THEN FALSE
  ELSE IF EndRejects(trade, f) THEN FALSE
  ELSE TRUE

FilterTrades(entries, f) == SelectSeq(entries, LAMBDA t : TradePasses(t, f))

SortTrades(entries, key) ==
  SortSeq(entries, LAMBDA a, b : SortOrder(CompareBySortKey(a, b, key)) < 0)

\* the sum of entries[lo..hi].pnl (integer addition: the grouping of the
\* reduce does not change the sum)
RECURSIVE SumPnlRange(_, _, _)
SumPnlRange(entries, lo, hi) ==
  IF lo > hi THEN 0
  ELSE IF lo = hi THEN entries[lo].pnl
  ELSE LET mid == (lo + hi) \div 2
       IN  SumPnlRange(entries, lo, mid) + SumPnlRange(entries, mid + 1, hi)

\* entries.reduce((acc, trade) => acc + trade.pnl, 0)
SumPnl(entries) ==
  CHOOSE sum \in { SumPnlRange(es, 1, Len(es)) : es \in {entries} } : TRUE

\* CountWinning counting a flat trade as a win
CountNotLosing(entries) == Len(SelectSeq(entries, LAMBDA t : t.pnl >= 0))

CountWinning(entries) == Len(SelectSeq(entries, LAMBDA t : t.pnl > 0))

CountLong(entries) == Len(SelectSeq(entries, LAMBDA t : t.direction = "Long"))

\* MathRound truncating instead of rounding
MathTrunc(p, q) == p \div q

\* Math.round(p / q) for q > 0: the nearest integer, halves towards +infinity.
\* The quotient is exact here; the code's is a double, which agrees for every
\* total up to 39 and first differs at 23 of 40 (57.49999999999999 rounds to
\* 57, the exact 57.5 to 58).
MathRound(p, q) == (2 * p + q) \div (2 * q)

WinRateOf(winning, total) ==
  IF total > 0 THEN MathRound(winning * 100, total) ELSE 0

\* p / q on numbers, as the exact fraction num / den with den > 0; a division
\* by zero does not throw, its result (NaN or an infinity) is not finite
Divide(p, q) ==
  IF q = 0 THEN [finite |-> FALSE, num |-> 0, den |-> 1]
  ELSE IF q < 0 THEN [finite |-> TRUE, num |-> 0 - p, den |-> 0 - q]
  ELSE [finite |-> TRUE, num |-> p, den |-> q]

\* AvgOf dividing whatever the count
AvgOfUnguarded(total, count) == Divide(total, count)

\* totalTrades > 0 ? totalPnL / totalTrades : 0
AvgOf(total, count) == IF count > 0 THEN Divide(total, count) ELSE Divide(0, 1)

\* VisibleOf slicing whether or not everything is to be shown
VisibleOfPageOnly(sorted, showAll, size) ==
  IF ~(Len(sorted) > size) THEN sorted ELSE SubSeq(sorted, 1, size)

\* sortedTrades.slice(0, pageSize) unless everything is shown
VisibleOf(sorted, showAll, size) ==
  IF showAll \/ ~(Len(sorted) > size) THEN sorted
  ELSE SubSeq(sorted, 1, size)

(***************************************************************************)
(* State.                                                                  *)
(***************************************************************************)
VARIABLES
  trades,          \* useState<Trade[]>([])
  isLoading,       \* useState(true)
  error,           \* useState<string | null>(null)
  isModalOpen,     \* useState(false)
  editingTradeId,  \* useState<string | null>(null)
  formData,        \* useState<TradeFormData>(createEmptyFormState)
  showAllTrades,   \* useState(false)
  pageSize,        \* useState(5)
  filters,         \* useState<TradeFilters>(createDefaultFilters)
  sortKey,         \* useState<SortKey>("date-desc")
  isSubmitting,    \* useState(false)
  lastAlert,       \* the message the latest step alerted, NULL when it raised none
  lastConfirm,     \* the window.confirm of the latest step: the identifier it
                   \* asked about and the answer, NoConfirm when it asked nothing
  fetchCall,       \* the list call issued on mount
  submitCall,      \* the insert or update call of the running handleSubmit
  deleteCalls,     \* the delete calls of the running handleDelete invocations,
                   \* oldest first
  db,              \* the collaborator's table, in storage order
  nextId           \* the collaborator's id counter

\* no confirmation dialog was shown
NoConfirm == [id |-> NULL, answer |-> FALSE]

formVars == <<isModalOpen, editingTradeId, formData>>
viewVars == <<showAllTrades, pageSize, filters, sortKey>>
callVars == <<fetchCall, submitCall, deleteCalls>>
serverVars == <<db, nextId>>
vars == <<trades, isLoading, error, isSubmitting, lastAlert, lastConfirm,
          formVars, viewVars, callVars, serverVars>>

(***************************************************************************)
(* Derived values of a render.                                             *)
(***************************************************************************)
filteredTrades == FilterTrades(trades, filters)

sortedTrades == SortTrades(filteredTrades, sortKey)

hasActiveFilters ==
  \/ filters.direction # "All"
  \/ Truthy(trim(filters.pair))
  \/ Truthy(trim(filters.strategy))
  \/ filters.startDate # ""
  \/ filters.endDate # ""

\* totalPnL summed over the rows on screen
totalPnLOnScreen ==
  SumPnl(VisibleOf(SortTrades(FilterTrades(trades, filters), sortKey),
                   showAllTrades, pageSize))

totalPnL == SumPnl(filteredTrades)
totalTrades == Len(filteredTrades)
winningTrades == CountWinning(filteredTrades)
longTrades == CountLong(filteredTrades)
shortTrades == totalTrades - longTrades
losingTrades == totalTrades - winningTrades
winRate == WinRateOf(winningTrades, totalTrades)
avgPnl == AvgOf(totalPnL, totalTrades)

hasMoreTrades == Len(sortedTrades) > pageSize
visibleTrades == VisibleOf(sortedTrades, showAllTrades, pageSize)

PageSizes == {5, 10, 20}

\* a value of type `number | null`
NoNumber == [isNull |-> TRUE, v |-> 0]
Number(n) == [isNull |-> FALSE, v |-> n]

\* CalculatedPnLOf answering 0 where the fields give no number
CalculatedPnLOrZero(form) ==
  LET parsedEntry == parseFloat(form.entryPrice)
      parsedExit == parseFloat(form.exitPrice)
      parsedSize == parseFloat(form.positionSize)
  IN  IF \/ ~isFinite(parsedEntry)
         \/ ~isFinite(parsedExit)
         \/ ~isFinite(parsedSize)
         \/ parsedSize.v <= 0
      THEN Number(0)
      ELSE Number(calculatePnL(form.direction, parsedEntry, parsedExit, parsedSize))

\* CalculatedPnLOf taking every trade for a long one
CalculatedPnLLongOnly(form) ==
  LET parsedEntry == parseFloat(form.entryPrice)
      parsedExit == parseFloat(form.exitPrice)
      parsedSize == parseFloat(form.positionSize)
  IN  IF \/ ~isFinite(parsedEntry)
         \/ ~isFinite(parsedExit)
         \/ ~isFinite(parsedSize)
         \/ parsedSize.v <= 0
      THEN NoNumber
      ELSE Number(calculatePnL("Long", parsedEntry, parsedExit, parsedSize))

\* the callback of calculatedPnL
CalculatedPnLOf(form) ==
  LET parsedEntry == parseFloat(form.entryPrice)
      parsedExit == parseFloat(form.exitPrice)
      parsedSize == parseFloat(form.positionSize)
  IN  IF \/ ~isFinite(parsedEntry)
         \/ ~isFinite(parsedExit)
         \/ ~isFinite(parsedSize)
         \/ parsedSize.v <= 0
      THEN NoNumber
      ELSE Number(calculatePnL(form.direction, parsedEntry, parsedExit, parsedSize))

calculatedPnL == CalculatedPnLOf(formData)

(***************************************************************************)
(* The storage collaborator (supabase.from("trades")): a table of rows.    *)
(***************************************************************************)
\* .order("trade_date", { ascending: false }): later dates first, rows of one
\* date in storage order
CompareRowsDateDesc(a, b) == Minus(getTime(b.trade_date), getTime(a.trade_date))

OrderByDateDesc(rows) ==
  SortSeq(rows, LAMBDA a, b : SortOrder(CompareRowsDateDesc(a, b)) < 0)

NewIds == <<"n1", "n2", "n3">>

\* the row the table stores for a payload: numeric columns as numbers
StoredRow(id, payload) ==
  [ id |-> id,
    pair |-> payload.pair,
    direction |-> payload.direction,
    strategy |-> payload.strategy,
    entry_price |-> RawNumber(payload.entry_price),
    exit_price |-> RawNumber(payload.exit_price),
    pnl |-> RawNumber(payload.pnl),
    position_size |-> RawNumber(payload.position_size),
    sentiment |-> payload.sentiment,
    trade_date |-> payload.trade_date ]

\* the same row with its numeric columns serialized as text
AsText(value) == IF value.k = "number" THEN RawString(toString(value.n)) ELSE value

Serialized(row, text) ==
  IF text
  THEN [row EXCEPT !.entry_price = AsText(@), !.exit_price = AsText(@),
                   !.pnl = AsText(@), !.position_size = AsText(@)]
  ELSE row

HasRow(id) == \E i \in 1..Len(db) : db[i].id = id

\* the collaborator answers the list call
ServeList ==
  /\ fetchCall.st = "sent"
  /\ fetchCall' = [st |-> "served", ok |-> TRUE, rows |-> OrderByDateDesc(db),
                   message |-> NULL]
  /\ lastAlert' = NULL
  /\ lastConfirm' = NoConfirm
  /\ UNCHANGED <<trades, isLoading, error, isSubmitting, formVars,
                 viewVars, submitCall, deleteCalls, serverVars>>

\* the collaborator fails the list call
FailList ==
  /\ fetchCall.st = "sent"
  /\ fetchCall' = [st |-> "served", ok |-> FALSE, rows |-> <<>>,
                   message |-> "list failed"]
  /\ lastAlert' = NULL
  /\ lastConfirm' = NoConfirm
  /\ UNCHANGED <<trades, isLoading, error, isSubmitting, formVars,
                 viewVars, submitCall, deleteCalls, serverVars>>

\* the collaborator answers the insert or update call
ServeSubmit ==
  /\ submitCall.st = "sent"
  /\ \/ /\ submitCall.id = NULL
        /\ nextId <= MaxInserts
        /\ \E text \in BOOLEAN :
             LET row == StoredRow(NewIds[nextId], submitCall.payload)
             IN  /\ db' = Append(db, row)
                 /\ nextId' = nextId + 1
                 /\ submitCall' = [submitCall EXCEPT !.st = "served", !.ok = TRUE,
                                                     !.data = Serialized(row, text)]
     \/ /\ submitCall.id # NULL
        /\ HasRow(submitCall.id)
        /\ \E text \in BOOLEAN :
             LET row == StoredRow(submitCall.id, submitCall.payload)
             IN  /\ db' = [i \in 1..Len(db) |->
                             IF db[i].id = submitCall.id THEN row ELSE db[i]]
                 /\ nextId' = nextId
                 /\ submitCall' = [submitCall EXCEPT !.st = "served", !.ok = TRUE,
                                                     !.data = Serialized(row, text)]
     \/ /\ submitCall' = [submitCall EXCEPT !.st = "served", !.ok = FALSE,
                                            !.message = "save failed"]
        /\ UNCHANGED serverVars
  /\ lastAlert' = NULL
  /\ lastConfirm' = NoConfirm
  /\ UNCHANGED <<trades, isLoading, error, isSubmitting, formVars,
                 viewVars, fetchCall, deleteCalls>>

\* the collaborator answers a delete call
ServeDelete ==
  \E n \in 1..Len(deleteCalls) :
    /\ deleteCalls[n].st = "sent"
    /\ \/ /\ db' = SelectSeq(db, LAMBDA row : row.id # deleteCalls[n].id)
          /\ deleteCalls' = [deleteCalls EXCEPT ![n].st = "served", ![n].ok = TRUE]
       \/ /\ db' = db
          /\ deleteCalls' = [deleteCalls EXCEPT ![n].st = "served", ![n].ok = FALSE,
                                                ![n].message = "delete failed"]
    /\ lastAlert' = NULL
    /\ lastConfirm' = NoConfirm
    /\ UNCHANGED <<trades, isLoading, error, isSubmitting, formVars,
                   viewVars, fetchCall, submitCall, nextId>>

(***************************************************************************)
(* The component: Home.                                                    *)
(***************************************************************************)
NoPayload ==
  [ pair |-> <<>>, direction |-> "Long", strategy |-> <<>>, entry_price |-> 0,
    exit_price |-> 0, position_size |-> 0, pnl |-> 0, sentiment |-> TextNull,
    trade_date |-> "" ]

NoSubmit ==
  [ st |-> "none", id |-> NULL, payload |-> NoPayload, ok |-> FALSE,
    data |-> StoredRow(NULL, NoPayload), message |-> NULL ]

\* the state after the first render and its effect: the list call is out
InitWith(tables) ==
  /\ trades = <<>>
  /\ isLoading = TRUE
  /\ error = NULL
  /\ isModalOpen = FALSE
  /\ editingTradeId = NULL
  /\ formData = createEmptyFormState
  /\ showAllTrades = FALSE
  /\ pageSize = 5
  /\ filters = createDefaultFilters
  /\ sortKey = "date-desc"
  /\ isSubmitting = FALSE
  /\ lastAlert = NULL
  /\ lastConfirm = NoConfirm
  /\ fetchCall = [st |-> "sent", ok |-> FALSE, rows |-> <<>>, message |-> NULL]
  /\ submitCall = NoSubmit
  /\ deleteCalls = <<>>
  /\ db \in tables
  /\ nextId = 1

\* fetchTrades without its finally block
fetchTradesWithoutFinally ==
  /\ fetchCall.st = "served"
  /\ IF ~fetchCall.ok
     THEN /\ error' = fetchCall.message
          /\ trades' = trades
          /\ isLoading' = isLoading
     ELSE LET mappedTrades == [i \in 1..Len(fetchCall.rows) |->
                                 mapRowToTrade(fetchCall.rows[i])]
          IN  /\ trades' = sortTradesByDateDesc(mappedTrades)
              /\ error' = NULL
              /\ isLoading' = FALSE
  /\ fetchCall' = [fetchCall EXCEPT !.st = "done"]
  /\ lastAlert' = NULL
  /\ lastConfirm' = NoConfirm
  /\ UNCHANGED <<isSubmitting, formVars, viewVars, submitCall,
                 deleteCalls, serverVars>>

\* fetchTrades after its await
fetchTrades ==
  /\ fetchCall.st = "served"
  /\ IF ~fetchCall.ok
     THEN /\ error' = fetchCall.message
          /\ trades' = trades
     ELSE LET mappedTrades == [i \in 1..Len(fetchCall.rows) |->
                                 mapRowToTrade(fetchCall.rows[i])]
          IN  /\ trades' = sortTradesByDateDesc(mappedTrades)
              /\ error' = NULL
  /\ isLoading' = FALSE
  /\ fetchCall' = [fetchCall EXCEPT !.st = "done"]
  /\ lastAlert' = NULL
  /\ lastConfirm' = NoConfirm
  /\ UNCHANGED <<isSubmitting, formVars, viewVars, submitCall,
                 deleteCalls, serverVars>>

openCreateModal ==
  /\ editingTradeId' = NULL
  /\ formData' = createEmptyFormState
  /\ isModalOpen' = TRUE
  /\ lastAlert' = NULL
  /\ lastConfirm' = NoConfirm
  /\ UNCHANGED <<trades, isLoading, error, isSubmitting, viewVars,
                 callVars, serverVars>>

openEditModal(trade) ==
  /\ editingTradeId' = trade.id
  /\ formData' = [ pair |-> trade.pair,
                   direction |-> trade.direction,
                   strategy |-> trade.strategy,
                   entryPrice |-> toString(trade.entryPrice),
                   exitPrice |-> toString(trade.exitPrice),
                   positionSize |-> toString(trade.positionSize),
                   date |-> trade.date,
                   sentiment |-> trade.sentiment ]
  /\ isModalOpen' = TRUE
  /\ lastAlert' = NULL
  /\ lastConfirm' = NoConfirm
  /\ UNCHANGED <<trades, isLoading, error, isSubmitting, viewVars,
                 callVars, serverVars>>

\* closeModal leaving the identifier bound
closeModalKeepingId ==
  /\ isModalOpen' = FALSE
  /\ editingTradeId' = editingTradeId
  /\ formData' = createEmptyFormState
  /\ lastAlert' = NULL
  /\ lastConfirm' = NoConfirm
  /\ UNCHANGED <<trades, isLoading, error, isSubmitting, viewVars,
                 callVars, serverVars>>

\* closeModal leaving the fields as typed
closeModalKeepingForm ==
  /\ isModalOpen' = FALSE
  /\ editingTradeId' = NULL
  /\ formData' = formData
  /\ lastAlert' = NULL
  /\ lastConfirm' = NoConfirm
  /\ UNCHANGED <<trades, isLoading, error, isSubmitting, viewVars,
                 callVars, serverVars>>

closeModal ==
  /\ isModalOpen' = FALSE
  /\ editingTradeId' = NULL
  /\ formData' = createEmptyFormState
  /\ lastAlert' = NULL
  /\ lastConfirm' = NoConfirm
  /\ UNCHANGED <<trades, isLoading, error, isSubmitting, viewVars,
                 callVars, serverVars>>

handleInputChange(name, value) ==
  /\ formData' = [formData EXCEPT ![name] = value]
  /\ lastAlert' = NULL
  /\ lastConfirm' = NoConfirm
  /\ UNCHANGED <<trades, isLoading, error, isSubmitting, isModalOpen,
                 editingTradeId, viewVars, callVars, serverVars>>

handleFilterChange(name, value) ==
  /\ filters' = [filters EXCEPT ![name] = value]
  /\ showAllTrades' = FALSE
  /\ lastAlert' = NULL
  /\ lastConfirm' = NoConfirm
  /\ UNCHANGED <<trades, isLoading, error, isSubmitting, formVars,
                 pageSize, sortKey, callVars, serverVars>>

\* the reset button is disabled without an active filter
resetFilters ==
  /\ hasActiveFilters
  /\ filters' = createDefaultFilters
  /\ showAllTrades' = FALSE
  /\ lastAlert' = NULL
  /\ lastConfirm' = NoConfirm
  /\ UNCHANGED <<trades, isLoading, error, isSubmitting, formVars,
                 pageSize, sortKey, callVars, serverVars>>

setSortKey(value) ==
  /\ value \in SortKeys
  /\ sortKey' = value
  /\ lastAlert' = NULL
  /\ lastConfirm' = NoConfirm
  /\ UNCHANGED <<trades, isLoading, error, isSubmitting, formVars,
                 showAllTrades, pageSize, filters, callVars, serverVars>>

\* a page size button
setPageSize(size) ==
  /\ size \in PageSizes
  /\ pageSize' = size
  /\ showAllTrades' = FALSE
  /\ lastAlert' = NULL
  /\ lastConfirm' = NoConfirm
  /\ UNCHANGED <<trades, isLoading, error, isSubmitting, formVars,
                 filters, sortKey, callVars, serverVars>>

\* the "View All Trades" / "Collapse" button
toggleShowAll ==
  /\ hasMoreTrades \/ showAllTrades
  /\ showAllTrades' = ~showAllTrades
  /\ lastAlert' = NULL
  /\ lastConfirm' = NoConfirm
  /\ UNCHANGED <<trades, isLoading, error, isSubmitting, formVars,
                 pageSize, filters, sortKey, callVars, serverVars>>

\* SubmitAlert letting any finite position size through
SubmitAlertAnySize(form) ==
  LET parsedEntry == parseFloat(form.entryPrice)
      parsedExit == parseFloat(form.exitPrice)
      parsedSize == parseFloat(form.positionSize)
  IN  IF ~Truthy(trim(form.pair)) THEN "Please enter a trading pair."
      ELSE IF ~Truthy(trim(form.strategy)) THEN "Please enter a strategy name."
      ELSE IF ~isFinite(parsedEntry) \/ ~isFinite(parsedExit)
           THEN "Please enter valid numeric values for entry and exit price."
      ELSE IF ~isFinite(parsedSize)
           THEN "Please enter a position size greater than zero."
      ELSE NULL

\* what handleSubmit's validation answers: the alert it raises, or NULL
SubmitAlert(form) ==
  LET parsedEntry == parseFloat(form.entryPrice)
      parsedExit == parseFloat(form.exitPrice)
      parsedSize == parseFloat(form.positionSize)
  IN  IF ~Truthy(trim(form.pair)) THEN "Please enter a trading pair."
      ELSE IF ~Truthy(trim(form.strategy)) THEN "Please enter a strategy name."
      ELSE IF ~isFinite(parsedEntry) \/ ~isFinite(parsedExit)
           THEN "Please enter valid numeric values for entry and exit price."
      ELSE IF ~isFinite(parsedSize) \/ parsedSize.v <= 0
           THEN "Please enter a position size greater than zero."
      ELSE NULL

\* SubmitPayload keeping, on an update, the pnl the trade had
SubmitPayloadKeepingPnl(form) ==
  LET parsedEntry == parseFloat(form.entryPrice)
      parsedExit == parseFloat(form.exitPrice)
      parsedSize == parseFloat(form.positionSize)
      entryPrice == IF isFinite(parsedEntry) THEN parsedEntry.v ELSE 0
      exitPrice == IF isFinite(parsedExit) THEN parsedExit.v ELSE 0
      positionSize == IF isFinite(parsedSize) THEN parsedSize.v ELSE 0
      held == SelectSeq(trades, LAMBDA item : item.id = editingTradeId)
      pnl == IF editingTradeId # NULL /\ held # <<>> THEN held[1].pnl
             ELSE calculatePnL(form.direction, Num(entryPrice), Num(exitPrice),
                               Num(positionSize))
  IN  [ pair |-> form.pair,
        direction |-> form.direction,
        strategy |-> form.strategy,
        entry_price |-> entryPrice,
        exit_price |-> exitPrice,
        position_size |-> positionSize,
        pnl |-> pnl,
        sentiment |-> IF Truthy(trim(form.sentiment)) THEN Text(form.sentiment)
                      ELSE TextNull,
        trade_date |-> form.date ]

\* the payload handleSubmit builds from a form that passed validation
SubmitPayload(form) ==
  LET parsedEntry == parseFloat(form.entryPrice)
      parsedExit == parseFloat(form.exitPrice)
      parsedSize == parseFloat(form.positionSize)
      entryPrice == IF isFinite(parsedEntry) THEN parsedEntry.v ELSE 0
      exitPrice == IF isFinite(parsedExit) THEN parsedExit.v ELSE 0
      positionSize == IF isFinite(parsedSize) THEN parsedSize.v ELSE 0
      pnl == calculatePnL(form.direction, Num(entryPrice), Num(exitPrice),
                          Num(positionSize))
  IN  [ pair |-> form.pair,
        direction |-> form.direction,
        strategy |-> form.strategy,
        entry_price |-> entryPrice,
        exit_price |-> exitPrice,
        position_size |-> positionSize,
        pnl |-> pnl,
        sentiment |-> IF Truthy(trim(form.sentiment)) THEN Text(form.sentiment)
                      ELSE TextNull,
        trade_date |-> form.date ]

\* handleSubmit up to its await
handleSubmit ==
  /\ IF SubmitAlert(formData) # NULL
     THEN /\ lastAlert' = SubmitAlert(formData)
          /\ UNCHANGED <<isSubmitting, submitCall>>
     ELSE /\ isSubmitting' = TRUE
          /\ submitCall' = [NoSubmit EXCEPT !.st = "sent", !.id = editingTradeId,
                                            !.payload = SubmitPayload(formData)]
          /\ lastAlert' = NULL
  /\ lastConfirm' = NoConfirm
  /\ UNCHANGED <<trades, isLoading, error, formVars, viewVars, fetchCall,
                 deleteCalls, serverVars>>

\* ReplaceTrade replacing the newest trade, whatever its identifier
ReplaceTradeNewest(prev, id, updatedTrade) ==
  sortTradesByDateDesc([i \in 1..Len(prev) |->
                          IF i = 1 THEN updatedTrade ELSE prev[i]])

\* setTrades updater of the update branch
ReplaceTrade(prev, id, updatedTrade) ==
  sortTradesByDateDesc([i \in 1..Len(prev) |->
                          IF prev[i].id = id THEN updatedTrade ELSE prev[i]])

\* PrependTrade dropping the collection current at completion
PrependTradeAlone(prev, createdTrade) ==
  sortTradesByDateDesc(<<createdTrade>>)

\* setTrades updater of the insert branch
PrependTrade(prev, createdTrade) ==
  sortTradesByDateDesc(<<createdTrade>> \o prev)

\* submitDone without its finally block: a failure leaves isSubmitting on
submitDoneWithoutFinally ==
  /\ submitCall.st = "served"
  /\ IF submitCall.ok
     THEN /\ trades' = IF submitCall.id # NULL
                       THEN ReplaceTrade(trades, submitCall.id,
                                         mapRowToTrade(submitCall.data))
                       ELSE PrependTrade(trades, mapRowToTrade(submitCall.data))
          /\ isModalOpen' = FALSE
          /\ editingTradeId' = NULL
          /\ formData' = createEmptyFormState
          /\ lastAlert' = NULL
          /\ isSubmitting' = FALSE
     ELSE /\ lastAlert' = submitCall.message
          /\ isSubmitting' = isSubmitting
          /\ UNCHANGED <<trades, formVars>>
  /\ submitCall' = NoSubmit
  /\ lastConfirm' = NoConfirm
  /\ UNCHANGED <<isLoading, error, viewVars, fetchCall, deleteCalls, serverVars>>

\* handleSubmit after its await
submitDone ==
  /\ submitCall.st = "served"
  /\ IF submitCall.ok
     THEN /\ trades' = IF submitCall.id # NULL
                       THEN ReplaceTrade(trades, submitCall.id,
                                         mapRowToTrade(submitCall.data))
                       ELSE PrependTrade(trades, mapRowToTrade(submitCall.data))
          /\ isModalOpen' = FALSE
          /\ editingTradeId' = NULL
          /\ formData' = createEmptyFormState
          /\ lastAlert' = NULL
     ELSE /\ lastAlert' = submitCall.message
          /\ UNCHANGED <<trades, formVars>>
  /\ isSubmitting' = FALSE
  /\ submitCall' = NoSubmit
  /\ lastConfirm' = NoConfirm
  /\ UNCHANGED <<isLoading, error, viewVars, fetchCall, deleteCalls, serverVars>>

\* handleDelete calling the collaborator whatever window.confirm answers
handleDeleteUnconfirmed(id, confirmed) ==
  /\ deleteCalls' = Append(deleteCalls, [id |-> id, st |-> "sent", ok |-> FALSE,
                                         message |-> NULL])
  /\ lastConfirm' = [id |-> id, answer |-> confirmed]
  /\ lastAlert' = NULL
  /\ UNCHANGED <<trades, isLoading, error, isSubmitting, formVars,
                 viewVars, fetchCall, submitCall, serverVars>>

\* handleDelete up to its await: window.confirm answers `confirmed`
handleDelete(id, confirmed) ==
  /\ IF confirmed
     THEN deleteCalls' = Append(deleteCalls, [id |-> id, st |-> "sent", ok |-> FALSE,
                                              message |-> NULL])
     ELSE deleteCalls' = deleteCalls
  /\ lastConfirm' = [id |-> id, answer |-> confirmed]
  /\ lastAlert' = NULL
  /\ UNCHANGED <<trades, isLoading, error, isSubmitting, formVars,
                 viewVars, fetchCall, submitCall, serverVars>>

\* deleteDone removing the trade whatever the collaborator answered
deleteDoneOptimistic ==
  \E n \in 1..Len(deleteCalls) :
    /\ deleteCalls[n].st = "served"
    /\ trades' = SelectSeq(trades, LAMBDA item : item.id # deleteCalls[n].id)
    /\ lastAlert' = IF deleteCalls[n].ok THEN NULL ELSE deleteCalls[n].message
    /\ deleteCalls' = [k \in 1..(Len(deleteCalls) - 1) |->
                         IF k < n THEN deleteCalls[k] ELSE deleteCalls[k + 1]]
    /\ lastConfirm' = NoConfirm
    /\ UNCHANGED <<isLoading, error, isSubmitting, formVars, viewVars, fetchCall,
                   submitCall, serverVars>>

\* deleteDone with its filter turned around: it keeps the trades of the call's id
deleteDoneKeepingMatches ==
  \E n \in 1..Len(deleteCalls) :
    /\ deleteCalls[n].st = "served"
    /\ IF deleteCalls[n].ok
       THEN /\ trades' = SelectSeq(trades, LAMBDA item : item.id = deleteCalls[n].id)
            /\ lastAlert' = NULL
       ELSE /\ lastAlert' = deleteCalls[n].message
            /\ UNCHANGED trades
    /\ deleteCalls' = [k \in 1..(Len(deleteCalls) - 1) |->
                         IF k < n THEN deleteCalls[k] ELSE deleteCalls[k + 1]]
    /\ lastConfirm' = NoConfirm
    /\ UNCHANGED <<isLoading, error, isSubmitting, formVars, viewVars, fetchCall,
                   submitCall, serverVars>>

\* handleDelete after its await
deleteDone ==
  \E n \in 1..Len(deleteCalls) :
    /\ deleteCalls[n].st = "served"
    /\ IF deleteCalls[n].ok
       THEN /\ trades' = SelectSeq(trades, LAMBDA item : item.id # deleteCalls[n].id)
            /\ lastAlert' = NULL
       ELSE /\ lastAlert' = deleteCalls[n].message
            /\ UNCHANGED trades
    /\ deleteCalls' = [k \in 1..(Len(deleteCalls) - 1) |->
                         IF k < n THEN deleteCalls[k] ELSE deleteCalls[k + 1]]
    /\ lastConfirm' = NoConfirm
    /\ UNCHANGED <<isLoading, error, isSubmitting, formVars, viewVars, fetchCall,
                   submitCall, serverVars>>

(***************************************************************************)
(* Tables the collaborator may hold when the page loads.                   *)
(***************************************************************************)
\* the sequences of at most n distinct elements of S
DistinctSeqs(S, n) ==
  UNION { { q \in [1..k -> S] : \A i, j \in 1..k : i # j => q[i] # q[j] } :
          k \in 0..n }

Row(id, pair, direction, strategy, entry, exit, size, pnl, sentiment, date) ==
  [ id |-> id, pair |-> pair, direction |-> direction, strategy |-> strategy,
    entry_price |-> entry, exit_price |-> exit, pnl |-> pnl,
    position_size |-> size, sentiment |-> sentiment, trade_date |-> date ]

(***************************************************************************)
(* The view specification: a few trades of every shape, every filter and   *)
(* every sort key.                                                         *)
(***************************************************************************)
ViewRows ==
  { Row("v1", <<"B", "T">>, "Long", <<"T", "r">>, RawNumber(1), RawNumber(3),
        RawNumber(2), RawNumber(4), Text(<<"o", "k">>), "2024-04-12"),
    Row("v2", <<"e", "t">>, "Short", <<"M", "e">>, RawString(<<"5">>),
        RawString(<<"3">>), RawString(<<"2">>), RawString(<<"4">>), TextNull,
        "2024-04-10"),
    Row("v3", <<"b", "t", "c">>, "Short", <<"m", "e">>, RawNumber(2), RawNumber(3),
        RawNumber(2), RawNumber(-2), TextNull, "2024-04-10"),
    Row("v4", <<"E", "T">>, "Long", <<"t", "R">>, RawNumber(2), RawNumber(2),
        RawNumber(1), RawNumber(0), Text(<<>>), "2024-04-03") }

ViewTables == DistinctSeqs(ViewRows, MaxViewRows)

\* what the filter inputs are given: [name, value]
ViewFilterInputs ==
  ({"pair"} \X {<<>>, <<" ">>, <<" ", "b", "T">>})
    \cup ({"strategy"} \X {<<>>, <<" ", " ">>, <<"M", "E", " ">>})
    \cup ({"direction"} \X {"All", "Long", "Short"})
    \cup ({"startDate"} \X {"", "2024-04-10", "10/04"})
    \cup ({"endDate"} \X {"", "2024-04-10", "10/04"})

ViewInit == InitWith(ViewTables)

\* the user works the filters and the sort once the list has loaded
ViewFilterChange ==
  /\ ~isLoading
  /\ \E input \in ViewFilterInputs : handleFilterChange(input[1], input[2])

ViewResetFilters == ~isLoading /\ resetFilters

ViewSortChange == ~isLoading /\ \E value \in SortKeys : setSortKey(value)

ViewNext ==
  \/ ServeList
  \/ fetchTrades
  \/ ViewFilterChange
  \/ ViewResetFilters
  \/ ViewSortChange

ViewSpec == ViewInit /\ [][ViewNext]_vars

(***************************************************************************)
(* The statistics specification: many trades of few shapes, the direction  *)
(* filter, sorting and paging.                                             *)
(***************************************************************************)
\* the i-th row of a table, of shape `kind`
StatRow(i, kind) ==
  LET id == "s" \o ToString(i)
      date == IF i % 3 = 0 THEN "2024-04-07" ELSE "2024-04-10"
  IN  CASE kind = "long-win" ->
             Row(id, <<"B">>, "Long", <<"s">>, RawNumber(1), RawNumber(3),
                 RawNumber(i), RawNumber(2 * i), TextNull, date)
        [] kind = "short-loss" ->
             Row(id, <<"B">>, "Short", <<"s">>, RawNumber(1), RawNumber(2),
                 RawNumber(i), RawNumber(0 - i), TextNull, date)
        [] kind = "long-flat" ->
             Row(id, <<"B">>, "Long", <<"s">>, RawNumber(2), RawNumber(2),
                 RawNumber(1), RawNumber(0), TextNull, date)
        [] kind = "short-win" ->
             Row(id, <<"B">>, "Short", <<"s">>, RawNumber(4), RawNumber(1),
                 RawNumber(1), RawNumber(3), TextNull, date)

StatKinds(i) == IF i % 2 = 1 THEN {"long-win", "short-loss"}
                ELSE {"long-flat", "short-win"}

SmallTables ==
  UNION { { [i \in 1..n |-> StatRow(i, kinds[i])] :
            kinds \in { q \in [1..n -> {"long-win", "short-loss", "long-flat",
                                        "short-win"}] :
                        \A i \in 1..n : q[i] \in StatKinds(i) } } :
          n \in 0..MaxStatRows }

\* a long journal: every trade won but the last
LongJournalLength == 201
LongJournal ==
  [i \in 1..LongJournalLength |->
     IF i < LongJournalLength THEN StatRow(i, "long-win") ELSE StatRow(i, "short-loss")]

\* a journal longer than two of the page sizes
PagedJournalLength == 12
PagedJournal ==
  [i \in 1..PagedJournalLength |->
     IF i % 4 = 0 THEN StatRow(i, "short-win") ELSE StatRow(i, "long-win")]

StatTables == SmallTables \cup {LongJournal, PagedJournal}

StatSortKeys == {"date-desc", "pnl-desc", "size-asc"}

StatInit == InitWith(StatTables)

\* the user works the view once the list has loaded
StatFilterChange ==
  /\ ~isLoading
  /\ \E value \in {"All", "Long", "Short"} : handleFilterChange("direction", value)

StatResetFilters == ~isLoading /\ resetFilters

StatSortChange == ~isLoading /\ \E value \in StatSortKeys : setSortKey(value)

StatPageSize == ~isLoading /\ \E size \in PageSizes : setPageSize(size)

StatToggleShowAll == ~isLoading /\ toggleShowAll

StatNext ==
  \/ ServeList
  \/ fetchTrades
  \/ StatFilterChange
  \/ StatResetFilters
  \/ StatSortChange
  \/ StatPageSize
  \/ StatToggleShowAll

StatsSpec == StatInit /\ [][StatNext]_vars

(***************************************************************************)
(* The journal specification: a short table, the form, and the insert,     *)
(* update and delete calls with their answers in any order.                *)
(***************************************************************************)
\* j1 is a row as the page writes it; j2 has text in its numeric columns and
\* no pnl (the columns of TradeRow are `string | number | null`)
JournalRows ==
  { Row("j1", <<"B">>, "Long", <<"s">>, RawNumber(1), RawNumber(3), RawNumber(4),
        RawNumber(8), TextNull, "2024-04-10"),
    Row("j2", <<"B">>, "Short", <<"s">>, RawString(<<"1">>), RawString(<<"3">>),
        RawString(<<"2">>), RawNull, TextNull, "2024-04-07") }

JournalTables == DistinctSeqs(JournalRows, MaxRows)

\* what the form inputs are given: [name, value]
FormInputs ==
  { <<"pair", <<"B">>>>, <<"strategy", <<"s">>>>,
    <<"entryPrice", <<"1">>>>, <<"exitPrice", <<"3">>>>,
    <<"positionSize", <<"2">>>>, <<"positionSize", <<"0">>>> }

Init == InitWith(JournalTables)

\* the Edit button of a row on screen; rows are rendered once loading ended
EditTrade ==
  /\ ~isLoading
  /\ \E i \in 1..Len(visibleTrades) : openEditModal(visibleTrades[i])

\* the Cancel and close buttons of the form
CancelForm == isModalOpen /\ closeModal

\* a field of the open form
TypeInForm ==
  /\ isModalOpen
  /\ \E input \in FormInputs : handleInputChange(input[1], input[2])

\* the Save button never disabled
SubmitFormWhileSubmitting == isModalOpen /\ handleSubmit

\* the Save button, disabled while a submission runs
SubmitForm == isModalOpen /\ ~isSubmitting /\ handleSubmit

\* the Delete button of a row on screen and the answer to its confirmation
DeleteTrade ==
  /\ ~isLoading
  /\ Len(deleteCalls) < MaxDeleteCalls
  /\ \E i \in 1..Len(visibleTrades), confirmed \in BOOLEAN :
       handleDelete(visibleTrades[i].id, confirmed)

Next ==
  \/ ServeList
  \/ FailList
  \/ fetchTrades
  \/ openCreateModal
  \/ EditTrade
  \/ CancelForm
  \/ TypeInForm
  \/ SubmitForm
  \/ ServeSubmit
  \/ submitDone
  \/ DeleteTrade
  \/ ServeDelete
  \/ deleteDone

Spec == Init /\ [][Next]_vars

\* the journal without deletions: the list, the form and its submissions
SubmitNext ==
  \/ ServeList
  \/ FailList
  \/ fetchTrades
  \/ openCreateModal
  \/ EditTrade
  \/ CancelForm
  \/ TypeInForm
  \/ SubmitForm
  \/ ServeSubmit
  \/ submitDone

SubmitSpec == Init /\ [][SubmitNext]_vars

\* the same journal with the event loop running the continuation of
\* handleSubmit once the collaborator has answered
SubmitLiveSpec == Init /\ [][SubmitNext]_vars /\ WF_vars(submitDone)

(***************************************************************************)
(* The deletion specification: the list and the Delete buttons of its      *)
(* rows; a row may be asked to be deleted again while its call is out.     *)
(***************************************************************************)
DeleteTables == DistinctSeqs(JournalRows, MaxDeleteRows)

DeleteInit == InitWith(DeleteTables)

\* the Delete button of a row on screen and the answer to its confirmation
DeleteRow ==
  /\ ~isLoading
  /\ Len(deleteCalls) < MaxPendingDeletes
  /\ \E i \in 1..Len(visibleTrades), confirmed \in BOOLEAN :
       handleDelete(visibleTrades[i].id, confirmed)

DeleteNext ==
  \/ ServeList
  \/ FailList
  \/ fetchTrades
  \/ DeleteRow
  \/ ServeDelete
  \/ deleteDone

DeleteSpec == DeleteInit /\ [][DeleteNext]_vars

(***************************************************************************)
(* The validation specification: the list and the form, given blank,       *)
(* white-space, zero and negative values, up to the call of a submission;  *)
(* the collaborator does not answer that call.                             *)
(***************************************************************************)
\* what the form inputs are given: [name, value]; a number input hands over
\* the empty string or a number in decimal notation
ValidationInputs ==
  ({"pair"} \X {<<>>, <<" ">>, <<"B">>})
    \cup ({"strategy"} \X {<<>>, <<" ">>, <<"s">>})
    \cup ({"entryPrice"} \X {<<>>, <<"1">>})
    \cup ({"exitPrice"} \X {<<>>, <<"3">>})
    \cup ({"positionSize"} \X {<<>>, <<"0">>, <<"-", "2">>, <<"2">>})

\* a field of the open form
TypeInValidated ==
  /\ isModalOpen
  /\ \E input \in ValidationInputs : handleInputChange(input[1], input[2])

ValidationNext ==
  \/ ServeList
  \/ fetchTrades
  \/ openCreateModal
  \/ EditTrade
  \/ CancelForm
  \/ TypeInValidated
  \/ SubmitForm

ValidationSpec == Init /\ [][ValidationNext]_vars

(***************************************************************************)
(* The normalization specification: the list returns one row whose columns *)
(* hold numbers, texts of every kind and nulls.                            *)
(***************************************************************************)
RawChars == {"1", "-", " ", "x"}

RawTexts == UNION { [1..n -> RawChars] : n \in 0..MaxRawLen }

\* the values of a column of type `string | number | null`
RawValues ==
  { RawNumber(n) : n \in {0, 2, -3} } \cup { RawString(t) : t \in RawTexts }
    \cup {RawNull}

RawRows ==
  { Row("r1", <<"B">>, "Long", <<"s">>, entry, exit, size, pnl, sentiment,
        "2024-04-10") :
      entry \in RawValues,
      exit \in {RawNull, RawString(<<"1">>)},
      size \in {RawNumber(2), RawString(<<"x">>)},
      pnl \in {RawNull, RawNumber(-3), RawString(<<"-", "1">>)},
      sentiment \in {TextNull, Text(<<>>), Text(<<"o", "k">>)} }

NormalizeTables == { <<row>> : row \in RawRows }

NormalizeInit == InitWith(NormalizeTables)

NormalizeNext ==
  \/ ServeList
  \/ FailList
  \/ fetchTrades

NormalizeSpec == NormalizeInit /\ [][NormalizeNext]_vars

(***************************************************************************)
(* The ordering specification: the journal with a form that is filled in   *)
(* with one trade and a date of the past, and is not cancelled; rows are   *)
(* deleted while the form is closed, and no delete is declined or fails.   *)
(***************************************************************************)
\* what the form inputs are given: [name, value]
OrderInputs ==
  { <<"pair", <<"B">>>>, <<"strategy", <<"s">>>>, <<"entryPrice", <<"1">>>>,
    <<"exitPrice", <<"3">>>>, <<"positionSize", <<"2">>>>,
    <<"date", "2024-04-03">> }

\* a field of the open form
TypeInDated ==
  /\ isModalOpen
  /\ \E input \in OrderInputs : handleInputChange(input[1], input[2])

\* the Delete button of a row, pressed while the form does not cover the
\* rows, and confirmed
DeleteUncovered == ~isModalOpen /\ DeleteTrade /\ lastConfirm'.answer

\* the collaborator carries out a delete call
ServeDeleteDone ==
  /\ ServeDelete
  /\ \A n \in 1..Len(deleteCalls') :
       deleteCalls'[n].st = "served" => deleteCalls'[n].ok

OrderNext ==
  \/ ServeList
  \/ fetchTrades
  \/ openCreateModal
  \/ EditTrade
  \/ TypeInDated
  \/ SubmitForm
  \/ ServeSubmit
  \/ submitDone
  \/ DeleteUncovered
  \/ ServeDeleteDone
  \/ deleteDone

OrderSpec == Init /\ [][OrderNext]_vars

(***************************************************************************)
(* The form specification: the form is opened, filled in and cancelled;    *)
(* nothing is submitted.                                                   *)
(***************************************************************************)
\* what the fields of the preview are given: [name, value]; a number input
\* hands over the empty string or a number in decimal notation
PreviewInputs ==
  ({"entryPrice"} \X {<<>>, <<"1">>, <<"5">>, <<"-", "2">>})
    \cup ({"exitPrice"} \X {<<>>, <<"3">>, <<"0">>})
    \cup ({"positionSize"} \X {<<>>, <<"2">>, <<"0">>, <<"-", "2">>})
    \cup ({"direction"} \X {"Long", "Short"})

\* a field of the open form that the preview reads
TypeInPreview ==
  /\ isModalOpen
  /\ \E input \in PreviewInputs : handleInputChange(input[1], input[2])

FormNext ==
  \/ ServeList
  \/ fetchTrades
  \/ openCreateModal
  \/ EditTrade
  \/ CancelForm
  \/ TypeInPreview

FormSpec == Init /\ [][FormNext]_vars

(***************************************************************************)
(* Properties.                                                             *)
(***************************************************************************)
\* the profit/loss formula of the data model
FormulaPnl(direction, entryPrice, exitPrice, positionSize) ==
  IF direction = "Long" THEN (exitPrice - entryPrice) * positionSize
  ELSE (entryPrice - exitPrice) * positionSize

\* C1 as stated: every trade of the in-memory collection, loaded, created or
\* updated, has the profit/loss the formula gives for its direction, prices
\* and size.
C1_AsStated ==
  \A i \in 1..Len(trades) :
    trades[i].pnl = FormulaPnl(trades[i].direction, trades[i].entryPrice,
                               trades[i].exitPrice, trades[i].positionSize)

\* C2: the profit/loss of every payload sent to the collaborator, by a create
\* or an update, is the formula applied to that payload's own direction, entry
\* price, exit price and position size.
C2_PayloadPnlRecomputed ==
  submitCall.st # "none" =>
    submitCall.payload.pnl =
      FormulaPnl(submitCall.payload.direction, submitCall.payload.entry_price,
                 submitCall.payload.exit_price, submitCall.payload.position_size)

\* an update of a short trade is out whose payload carries another profit/loss
\* than the trade holds in memory
C2_Witness ==
  /\ submitCall.st = "sent"
  /\ submitCall.id # NULL
  /\ submitCall.payload.direction = "Short"
  /\ submitCall.payload.pnl # 0
  /\ \E i \in 1..Len(trades) :
       /\ trades[i].id = submitCall.id
       /\ trades[i].pnl # submitCall.payload.pnl

InSeq(x, seq) == \E i \in 1..Len(seq) : seq[i] = x

\* a precedes b in seq
Before(a, b, seq) ==
  \E i, j \in 1..Len(seq) : i < j /\ seq[i] = a /\ seq[j] = b

Occurrences(x, seq) == Cardinality({ i \in 1..Len(seq) : seq[i] = x })

SameLetter(a, b) == LowerChar(a) = LowerChar(b)

\* needle occurs in hay, letter case ignored
ContainsIgnoringCase(hay, needle) ==
  \E k \in 0..(Len(hay) - Len(needle)) :
     \A m \in 1..Len(needle) : SameLetter(hay[k + m], needle[m])

Parseable(date) == ~getTime(date).nan
DayOf(date) == getTime(date).v

PairPredicate(t, f) ==
  trim(f.pair) = <<>> \/ ContainsIgnoringCase(t.pair, trim(f.pair))

StrategyPredicate(t, f) ==
  trim(f.strategy) = <<>> \/ ContainsIgnoringCase(t.strategy, trim(f.strategy))

DirectionPredicate(t, f) == f.direction = "All" \/ t.direction = f.direction

DateRangePredicate(t, f) ==
  /\ Parseable(f.startDate) => DayOf(t.date) >= DayOf(f.startDate)
  /\ Parseable(f.endDate) => DayOf(t.date) <= DayOf(f.endDate)

\* C3: filtering is conjunctive: a trade of the collection is in the filtered
\* result iff it passes the pair, strategy, direction and date-range predicates,
\* each taken on its own; the result holds trades of the collection only; and
\* under the default filters it is the collection itself, order included.
C3_FilterConjunctive ==
  /\ \A i \in 1..Len(trades) :
       InSeq(trades[i], filteredTrades)
         <=> /\ PairPredicate(trades[i], filters)
             /\ StrategyPredicate(trades[i], filters)
             /\ DirectionPredicate(trades[i], filters)
             /\ DateRangePredicate(trades[i], filters)
  /\ \A j \in 1..Len(filteredTrades) : InSeq(filteredTrades[j], trades)
  /\ filters = createDefaultFilters => filteredTrades = trades

\* two filters are active, one trade passes both, one passes the pair filter
\* only and one fails the pair filter
C3_Witness ==
  /\ trim(filters.pair) # <<>>
  /\ filters.direction # "All"
  /\ Len(trades) = 3
  /\ Len(filteredTrades) = 1
  /\ \E i \in 1..Len(trades) :
       PairPredicate(trades[i], filters) /\ ~DirectionPredicate(trades[i], filters)
  /\ \E i \in 1..Len(trades) : ~PairPredicate(trades[i], filters)

OnlyPairFilter ==
  /\ filters.strategy = <<>> /\ filters.direction = "All"
  /\ filters.startDate = "" /\ filters.endDate = ""

OnlyStrategyFilter ==
  /\ filters.pair = <<>> /\ filters.direction = "All"
  /\ filters.startDate = "" /\ filters.endDate = ""

\* C4: the pair filter (and likewise the strategy filter) excludes a trade iff
\* the trimmed filter string is non-empty and the trade's pair (strategy) does
\* not contain it, case ignored; a filter string of white space excludes nothing.
C4_TextFilter ==
  /\ \A i \in 1..Len(trades) :
       /\ PairRejects(trades[i], filters) <=> ~PairPredicate(trades[i], filters)
       /\ StrategyRejects(trades[i], filters)
            <=> ~StrategyPredicate(trades[i], filters)
  /\ OnlyPairFilter =>
       \A i \in 1..Len(trades) :
          InSeq(trades[i], filteredTrades) <=> PairPredicate(trades[i], filters)
  /\ OnlyStrategyFilter =>
       \A i \in 1..Len(trades) :
          InSeq(trades[i], filteredTrades) <=> StrategyPredicate(trades[i], filters)
  /\ (OnlyPairFilter /\ trim(filters.pair) = <<>>) => filteredTrades = trades
  /\ (OnlyStrategyFilter /\ trim(filters.strategy) = <<>>) => filteredTrades = trades

\* a padded filter in another letter case keeps the matching trades and drops
\* the others
C4_Witness ==
  /\ OnlyPairFilter
  /\ filters.pair = <<" ", "b", "T">>
  /\ \E i \in 1..Len(trades) :
       trades[i].pair = <<"B", "T">> /\ InSeq(trades[i], filteredTrades)
  /\ \E i \in 1..Len(trades) : ~InSeq(trades[i], filteredTrades)

OnlyDateFilter ==
  filters.pair = <<>> /\ filters.strategy = <<>> /\ filters.direction = "All"

\* C5: the date range is inclusive at both ends: a trade passes iff its date is
\* on or after the start whenever the start parses and on or before the end
\* whenever the end parses; a bound that is empty or does not parse is ignored.
C5_DateRange ==
  /\ OnlyDateFilter =>
       \A i \in 1..Len(trades) :
          InSeq(trades[i], filteredTrades) <=> DateRangePredicate(trades[i], filters)
  /\ (OnlyDateFilter /\ ~Parseable(filters.startDate) /\ ~Parseable(filters.endDate))
       => filteredTrades = trades

\* a start bound met exactly by one trade, an end bound that does not parse
C5_Witness ==
  /\ OnlyDateFilter
  /\ filters.startDate = "2024-04-10"
  /\ filters.endDate = "10/04"
  /\ \E i \in 1..Len(trades) :
       trades[i].date = "2024-04-10" /\ InSeq(trades[i], filteredTrades)
  /\ \E i \in 1..Len(trades) :
       trades[i].date = "2024-04-12" /\ InSeq(trades[i], filteredTrades)
  /\ \E i \in 1..Len(trades) :
       trades[i].date = "2024-04-03" /\ ~InSeq(trades[i], filteredTrades)

\* entries is in the order sort key `key` asks for
OrderedBy(entries, key) ==
  \A i, j \in 1..Len(entries) :
     i < j =>
       CASE key = "date-desc" -> DayOf(entries[i].date) >= DayOf(entries[j].date)
         [] key = "date-asc" -> DayOf(entries[i].date) <= DayOf(entries[j].date)
         [] key = "pnl-desc" -> entries[i].pnl >= entries[j].pnl
         [] key = "pnl-asc" -> entries[i].pnl <= entries[j].pnl
         [] key = "size-desc" -> entries[i].positionSize >= entries[j].positionSize
         [] key = "size-asc" -> entries[i].positionSize <= entries[j].positionSize

SortedIsOrderedPermutation ==
  /\ Len(sortedTrades) = Len(filteredTrades)
  /\ \A i \in 1..Len(filteredTrades) :
       Occurrences(filteredTrades[i], sortedTrades)
         = Occurrences(filteredTrades[i], filteredTrades)
  /\ sortKey \in SortKeys
  /\ OrderedBy(sortedTrades, sortKey)

\* C6: for every sort key the displayed sequence is a permutation of the
\* filtered set in the order of that key (non-increasing for the descending
\* keys, non-decreasing for the ascending ones); the page starts with the sort
\* key "date-desc".
C6_SortedView == sortKey = "date-desc" /\ []SortedIsOrderedPermutation

\* a sort that rearranges a filtered part of the collection
C6_Witness ==
  /\ sortKey = "size-asc"
  /\ hasActiveFilters
  /\ Len(filteredTrades) >= 2
  /\ Len(filteredTrades) < Len(trades)
  /\ sortedTrades # filteredTrades

\* C7: sorting one filtered set by profit/loss descending and ascending puts
\* every two trades of different profit/loss in opposite relative orders.
C7_PnlOrdersReversed ==
  \A i, j \in 1..Len(filteredTrades) :
     filteredTrades[i].pnl # filteredTrades[j].pnl =>
       ( Before(filteredTrades[i], filteredTrades[j],
                SortTrades(filteredTrades, "pnl-desc"))
         <=> Before(filteredTrades[j], filteredTrades[i],
                    SortTrades(filteredTrades, "pnl-asc")) )

\* the view is sorted by ascending profit/loss, with a tie and two different
\* values in it
C7_Witness ==
  /\ sortKey = "pnl-asc"
  /\ Len(sortedTrades) = 3
  /\ \E i, j \in 1..3 : i # j /\ sortedTrades[i].pnl = sortedTrades[j].pnl
  /\ sortedTrades[1].pnl < sortedTrades[3].pnl
  /\ sortedTrades # SortTrades(filteredTrades, "pnl-desc")

PassesFilters(t, f) ==
  /\ PairPredicate(t, f)
  /\ StrategyPredicate(t, f)
  /\ DirectionPredicate(t, f)
  /\ DateRangePredicate(t, f)

\* the positions of the collection whose trade passes the current filters
PassingPositions == { i \in 1..Len(trades) : PassesFilters(trades[i], filters) }

\* the profit/loss of the trades at positions lo..hi that pass the filters
RECURSIVE SumPassing(_, _)
SumPassing(lo, hi) ==
  IF lo > hi THEN 0
  ELSE IF lo = hi
       THEN IF PassesFilters(trades[lo], filters) THEN trades[lo].pnl ELSE 0
       ELSE LET mid == (lo + hi) \div 2
            IN  SumPassing(lo, mid) + SumPassing(mid + 1, hi)

StatsOverFiltered ==
  /\ totalTrades = Cardinality(PassingPositions)
  /\ totalPnL = SumPassing(1, Len(trades))

\* a step that keeps the collection and the filters keeps both statistics
StatsKept ==
  (trades' = trades /\ filters' = filters)
    => (totalTrades' = totalTrades /\ totalPnL' = totalPnL)

\* C8: the statistics are those of the filtered set: totalTrades is the number
\* of trades passing the current filters and the net profit/loss is the sum of
\* their profit/loss, whatever the collection and the page show; a change of
\* sort key, page size or show-all flag changes neither.
C8_StatsOverFilteredSet == []StatsOverFiltered /\ [][StatsKept]_vars

\* the filtered set is a proper part of the collection and the page a proper
\* prefix of the filtered set, sorted by another key than the initial one
C8_Witness ==
  /\ filters.direction # "All"
  /\ Len(filteredTrades) < Len(trades)
  /\ ~showAllTrades
  /\ pageSize = 5
  /\ Len(visibleTrades) < Len(filteredTrades)
  /\ sortKey = "pnl-desc"
  /\ totalPnL # SumPnl(visibleTrades)
  /\ totalPnL # SumPnl(trades)

FilteredPositions == 1..Len(filteredTrades)

\* C9: winningTrades counts the filtered trades with profit/loss > 0,
\* losingTrades = totalTrades - winningTrades counts all the others, a flat trade
\* included, shortCount = totalTrades - longCount counts the short trades, so
\* wins + losses = longs + shorts = totalTrades and no count is negative.
C9_Counts ==
  /\ winningTrades = Cardinality({ i \in FilteredPositions : filteredTrades[i].pnl > 0 })
  /\ losingTrades = totalTrades - winningTrades
  /\ losingTrades = Cardinality({ i \in FilteredPositions : filteredTrades[i].pnl <= 0 })
  /\ longTrades = Cardinality({ i \in FilteredPositions : filteredTrades[i].direction = "Long" })
  /\ shortTrades = totalTrades - longTrades
  /\ shortTrades = Cardinality({ i \in FilteredPositions : filteredTrades[i].direction = "Short" })
  /\ winningTrades + losingTrades = totalTrades
  /\ longTrades + shortTrades = totalTrades
  /\ totalTrades = Len(filteredTrades)
  /\ winningTrades >= 0 /\ losingTrades >= 0
  /\ longTrades >= 0 /\ shortTrades >= 0 /\ totalTrades >= 0

\* a filtered set with a flat trade, a winning one and both directions in the
\* collection
C9_Witness ==
  /\ filters.direction = "Long"
  /\ \E i \in 1..Len(filteredTrades) : filteredTrades[i].pnl = 0
  /\ \E i \in 1..Len(filteredTrades) : filteredTrades[i].pnl > 0
  /\ losingTrades > 0
  /\ winningTrades > 0
  /\ Len(trades) > Len(filteredTrades)

\* r is winning / total * 100 rounded to the nearest integer, halves up
IsRoundedRate(r, winning, total) ==
  /\ 2 * total * r - total <= 200 * winning
  /\ 200 * winning < 2 * total * r + total

EveryFilteredTradeWins ==
  \A i \in 1..Len(filteredTrades) : filteredTrades[i].pnl > 0

NoFilteredTradeWins ==
  \A i \in 1..Len(filteredTrades) : ~(filteredTrades[i].pnl > 0)

\* C10 as stated: with at least one filtered trade, winRate is
\* winningTrades / totalTrades * 100 rounded half up, an integer in 0..100, 100
\* iff every filtered trade has profit/loss > 0, and 0 when none has.
C10_AsStated ==
  totalTrades > 0 =>
    /\ IsRoundedRate(winRate, winningTrades, totalTrades)
    /\ winRate \in 0..100
    /\ winRate = 100 <=> EveryFilteredTradeWins
    /\ NoFilteredTradeWins => winRate = 0

\* r is a nearest integer of winning / total * 100, an exact half going either
\* way
IsNearestRate(r, winning, total) ==
  /\ 2 * total * r - total <= 200 * winning
  /\ 200 * winning <= 2 * total * r + total

\* C10: with at least one filtered trade, winRate is a nearest integer of
\* winningTrades / totalTrades * 100, an integer in 0..100, 100 when every
\* filtered trade has profit/loss > 0 and only when at least 99.5% of them
\* have, and 0 when none has.
C10_WinRate ==
  totalTrades > 0 =>
    /\ IsNearestRate(winRate, winningTrades, totalTrades)
    /\ winRate \in 0..100
    /\ EveryFilteredTradeWins => winRate = 100
    /\ winRate = 100 => 200 * winningTrades >= 199 * totalTrades
    /\ NoFilteredTradeWins => winRate = 0

\* one win in eight: 12.5 rounds up to 13
C10_Witness ==
  /\ totalTrades = 8
  /\ winningTrades = 1
  /\ winRate = 13

\* C11: with no filtered trade, winRate and the average profit/loss are 0 and
\* the average is an ordinary number (no division by zero has produced it);
\* with filtered trades the average is the net profit/loss of the trades that
\* pass the filters divided by their number.
C11_EmptySetStats ==
  /\ avgPnl.finite
  /\ PassingPositions = {} => (winRate = 0 /\ avgPnl.num = 0)
  /\ PassingPositions # {} =>
       avgPnl.num * Cardinality(PassingPositions)
         = SumPassing(1, Len(trades)) * avgPnl.den

\* a filter that excludes every trade of a collection with winning trades
C11_Witness ==
  /\ Len(trades) > 1
  /\ \E i \in 1..Len(trades) : trades[i].pnl > 0
  /\ filters.direction # "All"
  /\ filteredTrades = <<>>
  /\ winRate = 0
  /\ avgPnl = Divide(0, 1)

\* s is a number in decimal notation: digits, after an optional sign
IsNumeral(s) ==
  LET digits == IF s # <<>> /\ Head(s) \in {"-", "+"} THEN Tail(s) ELSE s
  IN  digits # <<>> /\ \A i \in 1..Len(digits) : IsDigit(digits[i])

\* the number a numeral denotes
NumeralValue(s) ==
  IF Head(s) = "-" THEN 0 - DigitsValue(Tail(s))
  ELSE IF Head(s) = "+" THEN DigitsValue(Tail(s))
  ELSE DigitsValue(s)

\* C12: the preview of the form is null when the entry price, the exit price
\* or the position size is not a number or the size is not positive, and is
\* otherwise the profit/loss formula applied to the form's direction, entry,
\* exit and size.
C12_Preview ==
  IF \/ ~IsNumeral(formData.entryPrice)
     \/ ~IsNumeral(formData.exitPrice)
     \/ ~IsNumeral(formData.positionSize)
     \/ NumeralValue(formData.positionSize) <= 0
  THEN calculatedPnL = NoNumber
  ELSE calculatedPnL =
         Number(FormulaPnl(formData.direction, NumeralValue(formData.entryPrice),
                           NumeralValue(formData.exitPrice),
                           NumeralValue(formData.positionSize)))

\* the open form of a short trade previews a loss
C12_Witness ==
  /\ isModalOpen
  /\ formData.direction = "Short"
  /\ formData.entryPrice = <<"-", "2">>
  /\ formData.exitPrice = <<"3">>
  /\ formData.positionSize = <<"2">>
  /\ calculatedPnL = Number(-10)

\* C13: the page size is 5, 10 or 20; with show-all off the rows on screen are
\* the first min(pageSize, n) trades of the sorted sequence, in its order; with
\* show-all on they are the whole sorted sequence.
C13_Paging ==
  /\ pageSize \in {5, 10, 20}
  /\ ~showAllTrades =>
       /\ Len(visibleTrades)
            = (IF pageSize < Len(sortedTrades) THEN pageSize ELSE Len(sortedTrades))
       /\ \A i \in 1..Len(visibleTrades) : visibleTrades[i] = sortedTrades[i]
  /\ showAllTrades => visibleTrades = sortedTrades

\* twelve trades and a page of five: the first five are on screen
C13_Witness ==
  /\ Len(sortedTrades) = 12
  /\ pageSize = 5
  /\ ~showAllTrades
  /\ sortKey = "pnl-desc"
  /\ visibleTrades = SubSeq(sortedTrades, 1, 5)
  /\ Len(visibleTrades) = 5

\* the form states of the client interaction
Idle == ~isModalOpen /\ editingTradeId = NULL
Creating == isModalOpen /\ editingTradeId = NULL
Editing == isModalOpen /\ editingTradeId # NULL

\* form holds the fields of trade, its numbers in decimal notation
PrePopulated(form, trade) ==
  /\ form.pair = trade.pair
  /\ form.direction = trade.direction
  /\ form.strategy = trade.strategy
  /\ form.date = trade.date
  /\ form.sentiment = trade.sentiment
  /\ IsNumeral(form.entryPrice) /\ NumeralValue(form.entryPrice) = trade.entryPrice
  /\ IsNumeral(form.exitPrice) /\ NumeralValue(form.exitPrice) = trade.exitPrice
  /\ IsNumeral(form.positionSize)
  /\ NumeralValue(form.positionSize) = trade.positionSize

\* a form that passes validation: pair and strategy not blank, prices numbers,
\* size a positive number
ValidForm(form) ==
  /\ \E i \in 1..Len(form.pair) : ~IsSpace(form.pair[i])
  /\ \E i \in 1..Len(form.strategy) : ~IsSpace(form.strategy[i])
  /\ IsNumeral(form.entryPrice)
  /\ IsNumeral(form.exitPrice)
  /\ IsNumeral(form.positionSize)
  /\ NumeralValue(form.positionSize) > 0

\* an identifier becomes bound: the form opens on a trade of the collection,
\* its fields taken from that trade
EditingEntered ==
  (editingTradeId' # NULL /\ editingTradeId' # editingTradeId) =>
    /\ isModalOpen'
    /\ \E i \in 1..Len(trades) :
         /\ trades[i].id = editingTradeId'
         /\ PrePopulated(formData', trades[i])

\* Submitting begins with the form open and valid
SubmittingEntered ==
  (~isSubmitting /\ isSubmitting') =>
    /\ Creating \/ Editing
    /\ ValidForm(formData)
    /\ submitCall'.st = "sent"
    /\ submitCall'.id = editingTradeId

\* a submission that succeeded ends in Idle
SuccessReturnsToIdle ==
  (submitCall.st = "served" /\ submitCall.ok /\ submitCall'.st = "none") =>
    (~isSubmitting' /\ ~isModalOpen' /\ editingTradeId' = NULL)

\* C14: an identifier is bound only while the form is open; the form is
\* opened for editing on a trade of the collection with its fields taken from
\* that trade; Submitting is entered only from Creating or Editing with a form
\* that passes validation; a successful submission ends with the form closed,
\* no identifier bound and Submitting left.
C14_FormStateMachine ==
  /\ [](Idle \/ Creating \/ Editing)
  /\ [][EditingEntered /\ SubmittingEntered /\ SuccessReturnsToIdle]_vars

\* the update of an edited trade has succeeded and is about to close the form
C14_Witness ==
  /\ Editing
  /\ isSubmitting
  /\ submitCall.st = "served"
  /\ submitCall.ok
  /\ submitCall.id = editingTradeId

\* the empty defaults of the form
EmptyForm(form) ==
  /\ form.pair = <<>> /\ form.strategy = <<>> /\ form.sentiment = <<>>
  /\ form.entryPrice = <<>> /\ form.exitPrice = <<>> /\ form.positionSize = <<>>
  /\ form.direction = "Long"
  /\ form.date = Today

\* a step that closes the form without ending a submission: Cancel
CancelStep == isModalOpen /\ ~isModalOpen' /\ submitCall' = submitCall

\* C15: Cancel closes the form, unbinds the identifier and resets the fields
\* to the empty defaults; the collection, the filters, the sort key, the
\* paging state and the collaborator calls are as they were.
C15_CancelDiscards ==
  [][CancelStep =>
       /\ Idle'
       /\ EmptyForm(formData')
       /\ UNCHANGED <<trades, filters, sortKey, pageSize, showAllTrades>>
       /\ UNCHANGED <<fetchCall, submitCall, deleteCalls, db>>]_vars

\* the form was cancelled while the update of an edited trade is out
C15_Witness ==
  /\ Idle
  /\ EmptyForm(formData)
  /\ isSubmitting
  /\ submitCall.st = "sent"
  /\ submitCall.id # NULL
  /\ trades # <<>>

\* the delete calls gained one call, the last
DeleteIssued ==
  /\ Len(deleteCalls') = Len(deleteCalls) + 1
  /\ SubSeq(deleteCalls', 1, Len(deleteCalls)) = deleteCalls

\* the step showed the confirmation dialog and the user declined
DeleteDeclined == lastConfirm'.id # NULL /\ ~lastConfirm'.answer

\* the rows the table lost are the rows of a delete call then answered
RowsLostToDeleteCalls ==
  \A i \in 1..Len(db) :
    (\A j \in 1..Len(db') : db'[j].id # db[i].id) =>
      \E n \in 1..Len(deleteCalls) :
        /\ deleteCalls[n].id = db[i].id
        /\ deleteCalls[n].st = "sent"
        /\ Len(deleteCalls') = Len(deleteCalls)
        /\ deleteCalls'[n].st = "served"

\* C16: a delete call is issued only in a step whose confirmation dialog, for
\* the identifier of the call, was accepted; a declined dialog issues no call
\* and leaves the collection as it was; the table loses rows only to such calls.
C16_DeleteOnlyConfirmed ==
  [][/\ Len(deleteCalls') > Len(deleteCalls) =>
          /\ DeleteIssued
          /\ lastConfirm' = [id |-> deleteCalls'[Len(deleteCalls')].id,
                             answer |-> TRUE]
     /\ DeleteDeclined => UNCHANGED <<trades, fetchCall, submitCall, deleteCalls, db>>
     /\ RowsLostToDeleteCalls]_vars

\* the dialog of a trade was accepted and its delete call is out
C16_Witness ==
  /\ lastConfirm.id # NULL
  /\ lastConfirm.answer
  /\ deleteCalls # <<>>
  /\ deleteCalls[Len(deleteCalls)] =
       [id |-> lastConfirm.id, st |-> "sent", ok |-> FALSE, message |-> NULL]
  /\ \E i \in 1..Len(trades) : trades[i].id = lastConfirm.id

\* the step in which handleSubmit learns that its insert or update failed
FailedSubmitStep ==
  /\ submitCall.st = "served"
  /\ ~submitCall.ok
  /\ submitCall'.st = "none"

\* the step in which a handleDelete learns that its delete failed
FailedDeleteStep ==
  \E n \in 1..Len(deleteCalls) :
    /\ deleteCalls[n].st = "served"
    /\ ~deleteCalls[n].ok
    /\ deleteCalls' = [k \in 1..(Len(deleteCalls) - 1) |->
                         IF k < n THEN deleteCalls[k] ELSE deleteCalls[k + 1]]

\* C17: the step that learns of a failed insert, update or delete alerts a
\* message and leaves the collection as it was: same trades, same order.
C17_FailureKeepsCollection ==
  [][(FailedSubmitStep \/ FailedDeleteStep) =>
       /\ lastAlert' # NULL
       /\ trades' = trades]_vars

\* the update of a trade has just failed
C17_Witness ==
  /\ lastAlert = "save failed"
  /\ isModalOpen
  /\ editingTradeId # NULL
  /\ \E i \in 1..Len(trades) : trades[i].id = editingTradeId

\* the alerts of a rejected submission
ValidationAlerts ==
  { "Please enter a trading pair.",
    "Please enter a strategy name.",
    "Please enter valid numeric values for entry and exit price.",
    "Please enter a position size greater than zero." }

\* C18: while the form lacks a pair or a strategy (blank once trimmed), has an
\* entry or exit price that is not a number, or a position size that is not a
\* positive number, no step issues an insert or update or enters Submitting;
\* and the step that rejects a submission leaves the collection, the calls,
\* the form, its contents and its bound identifier as they were.
C18_InvalidRejected ==
  [][/\ (~ValidForm(formData) /\ submitCall.st = "none") =>
          (submitCall' = submitCall /\ isSubmitting' = isSubmitting)
     /\ lastAlert' \in ValidationAlerts =>
          /\ ~ValidForm(formData)
          /\ isModalOpen
          /\ UNCHANGED <<trades, isSubmitting, formVars, callVars, db>>]_vars

\* the submission of an edited trade was rejected for its size
C18_Witness ==
  /\ lastAlert = "Please enter a position size greater than zero."
  /\ isModalOpen
  /\ editingTradeId # NULL
  /\ formData.positionSize = <<"-", "2">>
  /\ formData.pair = <<"B">>
  /\ ~isSubmitting
  /\ submitCall = NoSubmit

\* the step in which fetchTrades learns that the list failed
FetchFailedStep == fetchCall.st = "served" /\ ~fetchCall.ok /\ fetchCall'.st = "done"

\* the step in which fetchTrades receives the list
FetchSucceededStep == fetchCall.st = "served" /\ fetchCall.ok /\ fetchCall'.st = "done"

\* the loading indicator is on from the start until the list fetch completes,
\* with either outcome, and stays off from then on
LoadingOnlyForFetch ==
  /\ [](isLoading <=> fetchCall.st # "done")
  /\ [][~isLoading => ~isLoading']_vars

\* C19 as stated: the loading indicator is on only for the initial list fetch;
\* a failed list sets the error message and leaves the collection empty, a
\* successful list clears the error.
C19_AsStated ==
  /\ LoadingOnlyForFetch
  /\ [][FetchFailedStep => (error' # NULL /\ trades' = <<>>)]_vars
  /\ [][FetchSucceededStep => error' = NULL]_vars

\* C19: the loading indicator is on only for the initial list fetch; a failed
\* list sets the error message and leaves the collection as it was, which is
\* empty unless a trade was added while the list was out; a successful list
\* clears the error.
C19_Loading ==
  /\ LoadingOnlyForFetch
  /\ [][FetchFailedStep =>
          /\ error' # NULL
          /\ trades' = trades
          /\ nextId = 1 => trades' = <<>>]_vars
  /\ [][FetchSucceededStep => error' = NULL]_vars

\* the list failed after a trade was added while it was out
C19_Witness ==
  /\ fetchCall.st = "done"
  /\ ~fetchCall.ok
  /\ ~isLoading
  /\ error = "list failed"
  /\ Len(trades) = 1
  /\ ~isModalOpen

\* no trade of the collection has the identifier
MatchesNoTrade(id) == \A i \in 1..Len(trades) : trades[i].id # id

\* the step in which the handleDelete of call n ends
DeleteEndsStep(n) ==
  /\ deleteCalls[n].st = "served"
  /\ deleteCalls' = [k \in 1..(Len(deleteCalls) - 1) |->
                       IF k < n THEN deleteCalls[k] ELSE deleteCalls[k + 1]]

\* C20: a delete whose identifier matches no trade of the collection ends
\* with the collection as it was: same members, same values, same order.
C20_DeleteOfAbsentId ==
  [][\A n \in 1..Len(deleteCalls) :
       (DeleteEndsStep(n) /\ MatchesNoTrade(deleteCalls[n].id)) =>
         trades' = trades]_vars

\* a delete was answered with success for a trade that an earlier delete
\* already took out of the collection, which still holds another trade
C20_Witness ==
  /\ trades # <<>>
  /\ \E n \in 1..Len(deleteCalls) :
       /\ deleteCalls[n].st = "served"
       /\ deleteCalls[n].ok
       /\ MatchesNoTrade(deleteCalls[n].id)

\* the text without its leading white space
WithoutLeadingSpace(s) ==
  LET first == { i \in 1..Len(s) :
                   ~IsSpace(s[i]) /\ \A j \in 1..(i - 1) : IsSpace(s[j]) }
  IN  IF first = {} THEN <<>> ELSE SubSeq(s, CHOOSE i \in first : TRUE, Len(s))

\* the lengths of the prefixes of the text that are numerals
NumeralPrefixes(s) == { k \in 1..Len(s) : IsNumeral(SubSeq(s, 1, k)) }

\* the canonical number of a raw value: the number itself, the decimal a text
\* starts with, 0 for a text that starts with none and for an absent value
CanonicalNumber(value) ==
  LET t == WithoutLeadingSpace(value.s)
      lengths == NumeralPrefixes(t)
      longest == CHOOSE k \in lengths : \A l \in lengths : l <= k
  IN  IF value.k = "number" THEN value.n
      ELSE IF value.k = "string" /\ lengths # {}
           THEN NumeralValue(SubSeq(t, 1, longest))
      ELSE 0

\* C21: the loaded list has exactly one trade per raw row, each numeric field
\* the number itself, the parsed decimal of a parseable text, and 0 for an
\* unparseable text or an absent value; the sentiment is the empty string when
\* the row has none.
C21_NormalizationTotal ==
  (fetchCall.st = "done" /\ fetchCall.ok) =>
    /\ Len(trades) = Len(db)
    /\ \A i \in 1..Len(db) :
         \E j \in 1..Len(trades) :
           /\ trades[j].id = db[i].id
           /\ trades[j].entryPrice = CanonicalNumber(db[i].entry_price)
           /\ trades[j].exitPrice = CanonicalNumber(db[i].exit_price)
           /\ trades[j].positionSize = CanonicalNumber(db[i].position_size)
           /\ trades[j].pnl = CanonicalNumber(db[i].pnl)
           /\ trades[j].sentiment =
                IF db[i].sentiment.isNull THEN <<>> ELSE db[i].sentiment.s

\* a row with a signed text, an unparseable text and two absent values is loaded
C21_Witness ==
  /\ fetchCall.st = "done"
  /\ fetchCall.ok
  /\ Len(trades) = 1
  /\ db[1].entry_price = RawString(<<"-", "1">>)
  /\ db[1].position_size = RawString(<<"x">>)
  /\ db[1].exit_price = RawNull
  /\ db[1].sentiment = TextNull
  /\ trades[1].entryPrice = -1
  /\ trades[1].positionSize = 0
  /\ trades[1].exitPrice = 0
  /\ trades[1].sentiment = <<>>

\* the identifiers of a collection
IdsOf(entries) == { entries[i].id : i \in 1..Len(entries) }

\* the trade that carries the values of a payload
SubmittedTrade(id, payload) ==
  [ id |-> id,
    pair |-> payload.pair,
    direction |-> payload.direction,
    strategy |-> payload.strategy,
    entryPrice |-> payload.entry_price,
    exitPrice |-> payload.exit_price,
    pnl |-> payload.pnl,
    date |-> payload.trade_date,
    sentiment |-> IF payload.sentiment.isNull THEN <<>> ELSE payload.sentiment.s,
    positionSize |-> payload.position_size ]

\* the step in which handleSubmit receives the updated row
UpdateSucceededStep ==
  /\ submitCall.st = "served"
  /\ submitCall.ok
  /\ submitCall.id # NULL
  /\ submitCall'.st = "none"

\* C22: an update is issued for the identifier bound to the form; when it
\* succeeds the collection keeps its identifiers, the trade of that identifier
\* carries the submitted values and every other trade is as it was.
C22_EditReplacesOne ==
  /\ [][(submitCall.st = "none" /\ submitCall'.st = "sent") =>
          submitCall'.id = editingTradeId]_vars
  /\ [][UpdateSucceededStep =>
          /\ Len(trades') = Len(trades)
          /\ IdsOf(trades') = IdsOf(trades)
          /\ \A i \in 1..Len(trades') :
               IF trades'[i].id = submitCall.id
               THEN trades'[i] = SubmittedTrade(submitCall.id, submitCall.payload)
               ELSE \E j \in 1..Len(trades) : trades[j] = trades'[i]]_vars

\* the size of trade j1 was edited from 4 to 2 beside another trade
C22_Witness ==
  /\ Len(trades) = 2
  /\ submitCall.st = "none"
  /\ \E i \in 1..Len(trades) :
       /\ trades[i].id = "j1"
       /\ trades[i].positionSize = 2
       /\ trades[i].pnl = 4
  /\ \E i \in 1..Len(db) : db[i].id = "j1" /\ db[i].position_size = RawNumber(2)

\* the step in which a handleDelete learns that its delete of id succeeded
DeleteSucceededStep(id) ==
  \E n \in 1..Len(deleteCalls) :
    /\ DeleteEndsStep(n)
    /\ deleteCalls[n].ok
    /\ deleteCalls[n].id = id

\* C23 as stated: a trade created by a successful insert stays in the
\* collection until a delete of its identifier succeeds; no other step, the
\* completion of the initial list fetch included, takes it out.
C23_AsStated ==
  [][\A k \in 1..MaxInserts :
       (NewIds[k] \in IdsOf(trades) /\ NewIds[k] \notin IdsOf(trades')) =>
         DeleteSucceededStep(NewIds[k])]_vars

\* C24 as stated: no two trades of the collection share an identifier.
C24_AsStated ==
  \A i, j \in 1..Len(trades) : i # j => trades[i].id # trades[j].id

\* the step in which handleSubmit receives the stored row
SubmitSucceededStep ==
  /\ submitCall.st = "served"
  /\ submitCall.ok
  /\ submitCall'.st = "none"

\* the open form is not the one whose submission is out: it is bound to
\* another identifier, and a binding changes only when a form is opened
OtherFormOpen == isModalOpen /\ editingTradeId # submitCall.id

\* C25 as stated: the successful completion of a submission does not close a
\* form opened after the submitting form was cancelled, nor clear its bound
\* identifier, nor reset its fields.
C25_AsStated ==
  [][(SubmitSucceededStep /\ OtherFormOpen) => UNCHANGED formVars]_vars

\* C26: isSubmitting is true exactly while the one insert or update call is
\* out or answered and not yet handled, and while it is true no step starts a
\* submission: the call stays the one that is out and no validation runs.
C26_OneSubmission ==
  /\ [](isSubmitting <=> submitCall.st \in {"sent", "served"})
  /\ [][isSubmitting =>
          /\ submitCall'.st = "sent" => submitCall' = submitCall
          /\ lastAlert' \notin ValidationAlerts]_vars

\* while the insert of a trade is out, a form bound to a trade is open and valid
C26_Witness ==
  /\ isSubmitting
  /\ submitCall.st = "sent"
  /\ submitCall.id = NULL
  /\ isModalOpen
  /\ editingTradeId # NULL
  /\ ValidForm(formData)

\* the trade of the answered insert or update
AnsweredTrade == mapRowToTrade(submitCall.data)

\* a collection with the answered insert or update applied to it
WithSubmitApplied(entries) ==
  IF submitCall.id = NULL
  THEN sortTradesByDateDesc(<<AnsweredTrade>> \o entries)
  ELSE sortTradesByDateDesc([i \in 1..Len(entries) |->
                               IF entries[i].id = submitCall.id THEN AnsweredTrade
                               ELSE entries[i]])

\* a collection with the delete of an identifier applied to it
WithDeleteApplied(entries, id) == SelectSeq(entries, LAMBDA item : item.id # id)

\* an insert or update and the delete call n, on different identifiers, have
\* both been answered with success and neither has been handled
BothAnswered(n) ==
  /\ submitCall.st = "served"
  /\ submitCall.ok
  /\ deleteCalls[n].st = "served"
  /\ deleteCalls[n].ok
  /\ deleteCalls[n].id # AnsweredTrade.id

\* C27: a successful insert, update or delete is applied to the collection
\* current when it completes; when a submission and a delete on different
\* identifiers are both answered, applying them in either order gives the
\* same collection.
C27_MutationsCommute ==
  /\ [][SubmitSucceededStep => trades' = WithSubmitApplied(trades)]_vars
  /\ [][\A n \in 1..Len(deleteCalls) :
          (DeleteEndsStep(n) /\ deleteCalls[n].ok) =>
            trades' = WithDeleteApplied(trades, deleteCalls[n].id)]_vars
  /\ [](\A n \in 1..Len(deleteCalls) :
          BothAnswered(n) =>
            WithSubmitApplied(WithDeleteApplied(trades, deleteCalls[n].id))
              = WithDeleteApplied(WithSubmitApplied(trades), deleteCalls[n].id))

\* the update of one trade and the delete of another are both answered
C27_Witness ==
  /\ Len(trades) = 2
  /\ submitCall.id # NULL
  /\ submitCall.id \in IdsOf(trades)
  /\ \E n \in 1..Len(deleteCalls) :
       /\ BothAnswered(n)
       /\ deleteCalls[n].id \in IdsOf(trades)

\* every date of the collection is one that new Date() parses
DatesParseable == \A i \in 1..Len(trades) : ~getTime(trades[i].date).nan

\* C28: while the dates of its trades are parseable, the collection is in
\* date-descending order: no trade is followed by a trade of a later date.
C28_CollectionByDateDesc ==
  DatesParseable =>
    \A i, j \in 1..Len(trades) :
      i < j => getTime(trades[i].date).v >= getTime(trades[j].date).v

\* the created trade was given an earlier date by an update and now follows
\* the loaded trade
C28_Witness ==
  /\ Len(trades) = 2
  /\ submitCall.st = "none"
  /\ trades[1].id \in {"j1", "j2"}
  /\ trades[2].id = "n1"
  /\ trades[2].date = "2024-04-03"
  /\ \E i \in 1..Len(db) : db[i].id = "n1" /\ db[i].trade_date = "2024-04-03"

\* C29: once the collaborator has answered a submission, isSubmitting
\* returns to false, on success and on failure; the step that learns of a
\* failure leaves the form, its contents and its bound identifier as they were.
C29_SubmittingEnds ==
  /\ (submitCall.st = "served") ~> (~isSubmitting /\ submitCall.st = "none")
  /\ [][SubmitSucceededStep => ~isSubmitting']_vars
  /\ [][FailedSubmitStep => (~isSubmitting' /\ UNCHANGED formVars)]_vars

\* the insert of a trade has just failed and its form is open for a retry
C29_Witness ==
  /\ lastAlert = "save failed"
  /\ ~isSubmitting
  /\ submitCall.st = "none"
  /\ isModalOpen
  /\ editingTradeId = NULL
  /\ ValidForm(formData)

\* the pair and the strategy of the form are not blank
PairAndStrategyGiven ==
  /\ \E i \in 1..Len(formData.pair) : ~IsSpace(formData.pair[i])
  /\ \E i \in 1..Len(formData.strategy) : ~IsSpace(formData.strategy[i])

\* the step in which a submission of the form is accepted and its call issued
SubmissionAcceptedStep == submitCall.st = "none" /\ submitCall'.st = "sent"

\* C30: with a pair and a strategy given, a form whose preview is defined is
\* never rejected and a form whose preview is undefined is never accepted;
\* the profit/loss of the payload of an accepted submission is the value the
\* preview showed.
C30_PreviewAgrees ==
  [][PairAndStrategyGiven =>
       /\ ~calculatedPnL.isNull => lastAlert' \notin ValidationAlerts
       /\ calculatedPnL.isNull => ~SubmissionAcceptedStep
       /\ SubmissionAcceptedStep => submitCall'.payload.pnl = calculatedPnL.v]_vars

\* the update of a short trade is out with the loss its form previews
C30_Witness ==
  /\ submitCall.st = "sent"
  /\ submitCall.payload.direction = "Short"
  /\ isModalOpen
  /\ formData.direction = "Short"
  /\ calculatedPnL = Number(-4)
  /\ submitCall.payload.pnl = -4

=============================================================================
